---- MODULE Spec2Model ----
(***************************************************************************)
(* The tile cache and proxy layer of trailtrackervideo:                    *)
(*   - the tile route  GET /tiles/:z/:x/:y.png  (routes/process.js),       *)
(*   - the cache management operations of TileCache (utils/tile-cache.js), *)
(*   - the rate limiter processQueuedRequest (routes/process.js).          *)
(* Every await of a handler is a point where other handlers may run, so    *)
(* each handler is a process whose pc walks from one await to the next.    *)
(***************************************************************************)
EXTENDS Integers, Sequences, FiniteSets, TLC

\* ------------------------------------------------------------------ bounds
MaxReq == 3          \* tile requests, each started at most once
MaxConc == 2         \* of these, the requests that run beside the cache management
MaxClears == 1       \* DELETE /cache and DELETE /cache/zoom/:level calls
MaxIoErrors == 1     \* injected I/O errors of a run
MaxCalls == 3        \* calls to processQueuedRequest
MaxOsmCalls == 2     \* of these, the calls whose fetch is answered
MaxWalkReq == 1      \* tile requests that run beside GET /cache/stats
MaxRuns == 2         \* runs of the region download script
TickMs == 100        \* granularity of the clock, in ms
MaxTicks == 6        \* clock ticks of a run
StartTime == 1000    \* Date.now() when the server starts, in ms

\* -------------------------------------------------------- program constants
NumSources == 4
MIN_REQUEST_INTERVAL == 200
MaxZoom == 18

Reqs == 1..MaxReq
ConcReqs == 1..MaxConc
Calls == 1..MaxCalls
OsmCalls == 1..MaxOsmCalls
WalkReqs == 1..MaxWalkReq

\* ------------------------------------------------------------------ strings
\* A path parameter is a string, modelled as the sequence of its characters.
Digits == <<"0", "1", "2", "3", "4", "5", "6", "7", "8", "9">>

IsDigit(c) == \E i \in 1..10 : Digits[i] = c

DigitVal(c) == (CHOOSE i \in 1..10 : Digits[i] = c) - 1

RECURSIVE LeadingDigits(_)
LeadingDigits(s) ==
    IF s = <<>> \/ ~IsDigit(Head(s)) THEN <<>>
    ELSE <<Head(s)>> \o LeadingDigits(Tail(s))

RECURSIVE Decimal(_, _)
Decimal(acc, s) ==
    IF s = <<>> THEN acc ELSE Decimal(acc * 10 + DigitVal(Head(s)), Tail(s))

\* A JavaScript number that may be NaN.
NaN == [nan |-> TRUE, v |-> 0]

Num(n) == [nan |-> FALSE, v |-> n]

\* parseInt(string): an optional sign, then the leading decimal digits; NaN
\* when there is none.  What follows the digits is ignored.
parseInt(s) ==
    LET signed == s # <<>> /\ Head(s) \in {"-", "+"}
        rest == IF signed THEN Tail(s) ELSE s
        ds == LeadingDigits(rest)
    IN  IF ds = <<>> THEN NaN
        ELSE IF signed /\ Head(s) = "-" THEN Num(0 - Decimal(0, ds))
        ELSE Num(Decimal(0, ds))

\* a < b and a > b of JavaScript: false when either side is NaN.
NumLt(a, b) == ~a.nan /\ ~b.nan /\ a.v < b.v

NumGt(a, b) == ~a.nan /\ ~b.nan /\ a.v > b.v

RECURSIVE toString(_)
\* Number.prototype.toString of a non-negative integer.
toString(n) ==
    IF n < 10 THEN <<Digits[n + 1]>>
    ELSE toString(n \div 10) \o <<Digits[(n % 10) + 1]>>

\* ------------------------------------------------------------------- inputs
\* The path parameters of the tile requests that are issued.
TileParams ==
    { << <<"1">>, <<"0">>, <<"0">> >>,
      << <<"2">>, <<"0">>, <<"0">> >>,
      << <<"1", "9">>, <<"0">>, <<"0">> >>,
      << <<"-", "1">>, <<"0">>, <<"0">> >>,
      << <<"1">>, <<"-", "1">>, <<"0">> >>,
      << <<"1">>, <<"0">>, <<"-", "1">> >> }

\* The path parameters of requests whose spelling matters: a numeral with a
\* leading zero, an x beyond the last column of its zoom, a word, a numeral
\* followed by a letter, a y beyond the last row of its zoom.
PathParams ==
    { << <<"1">>, <<"0">>, <<"0">> >>,
      << <<"0", "1">>, <<"0">>, <<"0">> >>,
      << <<"1">>, <<"5">>, <<"0">> >>,
      << <<"a">>, <<"0">>, <<"0">> >>,
      << <<"1", "a">>, <<"0">>, <<"0">> >>,
      << <<"1">>, <<"0">>, <<"1", "9">> >> }

\* The path parameters of requests that all ask for one tile.
HerdParams == { << <<"1">>, <<"0">>, <<"0">> >> }

\* The :level parameters of DELETE /cache/zoom/:level that are issued.
LevelParams == { <<"1">>, <<"0", "1">>, <<"1", "9">>, <<"a">> }

\* What an outbound HTTP request can end with: a response with a status, a
\* connection error, or the timeout.
Outcomes == {"200", "403", "404", "error", "timeout"}

\* The same, and a response with status 200 whose body never ends: the
\* connection breaks, or the socket times out, after the headers.
BodyOutcomes == Outcomes \cup {"aborted"}

\* -------------------------------------------------------------------- bytes
\* A Buffer is a sequence of bytes; the model tags each image by its origin.
LocalBody == <<1>>

AltBody(i) == <<2, i>>

SimpleTile == <<3, 3, 3>>

ErrorTile == <<4, 4>>

Images == {LocalBody, SimpleTile, ErrorTile} \cup {AltBody(i) : i \in 1..NumSources}

\* -------------------------------------------------------------- file system
\* The store root: whether it exists, its directories (<<z>> and <<z, x>>)
\* and its files (<<z, x, y>> stands for z/x/y.png).
EmptyFiles == [p \in {} |-> <<>>]

Restrict(f, S) == [p \in S |-> f[p]]

\* fs.mkdir(cacheDir, {recursive: true}) of cacheDir = root/z/x
mkdirp(f, z, x) ==
    [root |-> TRUE, dirs |-> f.dirs \cup {<<z>>, <<z, x>>}, files |-> f.files]

\* fs.mkdir(this.cacheDir, {recursive: true})
mkdirRoot(f) == [f EXCEPT !.root = TRUE]

\* open(cachePath, 'w') of fs.writeFile: creates the file or truncates it
openTrunc(f, p) ==
    [f EXCEPT !.files = [q \in DOMAIN f.files \cup {p} |->
                            IF q = p THEN <<>> ELSE f.files[q]]]

\* the write of fs.writeFile through the open descriptor
writeBytes(f, p, bytes) ==
    [f EXCEPT !.files = [q \in DOMAIN f.files |->
                            IF q = p THEN bytes ELSE f.files[q]]]

\* fs.rm(this.cacheDir, {recursive: true, force: true})
rmRoot(f) == [root |-> FALSE, dirs |-> {}, files |-> EmptyFiles]

\* fs.rm(zoomPath, {recursive: true, force: true}) of zoomPath = root/name
rmZoomAll(f, name) == [root |-> f.root, dirs |-> {}, files |-> EmptyFiles]

rmZoom(f, name) ==
    [root |-> f.root,
     dirs |-> {d \in f.dirs : d[1] # name},
     files |-> Restrict(f.files, {p \in DOMAIN f.files : p[1] # name})]

\* Whether fs.rm fails because its target is missing: never, given force: true
\* (rmStrict is fs.rm without the force option).
rmStrict(f, d) == IF d = <<>> THEN ~f.root ELSE d \notin f.dirs

rmFails(f, d) == FALSE

VARIABLES
    fs,               \* the store on disk
    req,              \* the tile requests
    ioerrs,           \* I/O errors injected so far
    clearPc,          \* clearCache(): "idle", "rm", "mkdir", "done"
    clearResult,      \* its result: "none", "success", "ioerror", "failure"
    clearQuiet,       \* ghost: no tile request in flight since the last clear began
    nclears,          \* clearCache() calls so far
    zoomResult,       \* the last DELETE /cache/zoom/:level: "none", "400",
                      \* "success", "ioerror", "failure"
    zoomArg,          \* the zoom it passed to clearZoomLevel, -1 if none
    nzoom,            \* DELETE /cache/zoom/:level calls so far
    now,              \* the clock of the rate limiter, in ms
    ticks,            \* clock ticks so far
    lastRequestTime,  \* the shared clock value of the rate limiter
    calls,            \* the calls to processQueuedRequest
    pl,               \* POST /cache/preload and the preload it starts
    tilesCall,        \* the last call of getTilesInBounds: arguments and result
    walk,             \* GET /cache/stats: the walk of getCacheStats()
    dl                \* the region download script: its downloader and its loop

vars == <<fs, req, ioerrs, clearPc, clearResult, clearQuiet, nclears,
          zoomResult, zoomArg, nzoom, now, ticks, lastRequestTime, calls,
          pl, tilesCall, walk, dl>>

storeVars == <<fs, req, ioerrs, clearPc, clearResult, clearQuiet, nclears,
               zoomResult, zoomArg, nzoom>>

clearVars == <<clearPc, clearResult, clearQuiet, nclears, zoomResult, zoomArg,
               nzoom>>

rateVars == <<now, ticks, lastRequestTime, calls>>

bgVars == <<pl, tilesCall, walk, dl>>

\* An I/O operation succeeds (ok) or fails with an injected error.
IoChoice(ok) ==
    /\ ok \/ ioerrs < MaxIoErrors
    /\ ioerrs' = IF ok THEN ioerrs ELSE ioerrs + 1

\* ------------------------------------------------------------ tile requests
IdleReq ==
    [pc |-> "idle", z |-> <<>>, x |-> <<>>, y |-> <<>>,
     stage |-> "none", idx |-> 0, buf |-> <<>>, fd |-> FALSE,
     status |-> 0, body |-> <<>>,
     \* ghosts: the sources attempted, the sources that
     \* answered 200, what generateTile did, the writes completed, whether a
     \* write failed, whether the store answered, whether a clear ran since
     \* the request started, the requests that ended before this one started
     \* with no clear since
     log |-> <<>>, oks |-> {}, synth |-> "none",
     nwrites |-> 0, wfail |-> FALSE, hit |-> FALSE,
     cleared |-> FALSE, pred |-> {},
     \* the tile of the preload the request was made for, 0 when a client
     \* made it; ghost, kept for the requests of the preload: a public
     \* provider answered 403
     pre |-> 0, blocked |-> FALSE,
     \* ghost: when the request last called https.get for a public provider,
     \* -1 before it did
     sentAt |-> -1]

InFlight(r) == req[r].pc \notin {"idle", "done"}

\* const cacheDir = path.join(__dirname, '..', 'tile-cache', z, x)
\* const cachePath = path.join(cacheDir, `${y}.png`): the raw parameters
cachePath(q) == <<q.z, q.x, q.y>>

\* if (zNum < 0 || zNum > 18 || xNum < 0 || yNum < 0)
InvalidNoX(zNum, xNum, yNum) ==
    NumLt(zNum, Num(0)) \/ NumGt(zNum, Num(MaxZoom)) \/ NumLt(yNum, Num(0))

Invalid(zNum, xNum, yNum) ==
    \/ NumLt(zNum, Num(0))
    \/ NumGt(zNum, Num(MaxZoom))
    \/ NumLt(xNum, Num(0))
    \/ NumLt(yNum, Num(0))

\* The handler up to its first await: parse, validate, start fs.readFile.
\* The request is a client's (k = 0) or the preload's for its tile k.
Arrive(r, p, k) ==
    /\ req[r].pc = "idle"
    /\ r > 1 => req[r - 1].pc # "idle"
    /\ LET bad == Invalid(parseInt(p[1]), parseInt(p[2]), parseInt(p[3]))
           r0 == [req[r] EXCEPT !.z = p[1], !.x = p[2], !.y = p[3],
                     !.pre = k,
                     !.pred = {a \in Reqs : req[a].pc = "done"}]
       IN  req' = [req EXCEPT ![r] =
                IF bad THEN [r0 EXCEPT !.pc = "done", !.status = 400]
                ELSE [r0 EXCEPT !.pc = "read"]]
    /\ clearQuiet' = FALSE
    /\ UNCHANGED <<fs, ioerrs, clearPc, clearResult, nclears, zoomResult, zoomArg,
                   nzoom>>
    /\ UNCHANGED <<rateVars, bgVars>>

\* A client's request.
Start(r, p) == Arrive(r, p, 0)

\* The hit branch: return res.send(cachedTile)
AfterHitStale(r0, bytes) ==
    [r0 EXCEPT !.pc = "done", !.status = 200, !.body = LocalBody, !.hit = TRUE]

AfterHit(r0, bytes) ==
    [r0 EXCEPT !.pc = "done", !.status = 200, !.body = bytes, !.hit = TRUE]

\* After a miss the handler awaits fetchFromLocalTileServer.  (A request
\* that enters the provider loop calls https.get for the first provider in the
\* same step, and for the next provider in the step that ends an iteration.)
AfterMissSkipLocal(r0) == [r0 EXCEPT !.pc = "alt", !.idx = 1, !.sentAt = now]

AfterMiss(r0) == [r0 EXCEPT !.pc = "local"]

\* await fs.readFile(cachePath): a hit answers, a miss goes on.
ReadCache(r) ==
    /\ req[r].pc = "read"
    /\ LET p == cachePath(req[r])
           r0 == [req[r] EXCEPT !.log = Append(@, <<"store", 0>>),
                     !.pred = {a \in @ : ~req[a].cleared}]
       IN  req' = [req EXCEPT ![r] =
                IF p \in DOMAIN fs.files THEN AfterHit(r0, fs.files[p])
                ELSE AfterMiss(r0)]
    /\ UNCHANGED <<fs, ioerrs>>
    /\ UNCHANGED clearVars
    /\ UNCHANGED <<rateVars, bgVars>>

\* The catch block taken at once as the end of the request.
AfterWriteFailureAtOnce(r0) ==
    [r0 EXCEPT !.wfail = TRUE, !.fd = FALSE, !.pc = "done", !.status = 500]

\* The catch block a failed write-through of the current stage lands in.
AfterWriteFailure(r0) ==
    LET r1 == [r0 EXCEPT !.wfail = TRUE, !.fd = FALSE]
    IN  CASE r1.stage = "local" ->
                [r1 EXCEPT !.pc = "alt", !.idx = 1, !.sentAt = now]
          [] r1.stage = "alt" -> [r1 EXCEPT !.pc = "synth"]
          [] OTHER -> [r1 EXCEPT !.pc = "done", !.status = 500]

\* return new Promise((resolve) => { response.on('end', ...) }) when 'end' is
\* never emitted: the promise stays pending, and with it the await of the
\* handler.
AwaitEnd(r0) == [r0 EXCEPT !.pc = "hung"]

\* fetchFromLocalTileServer: the body of a 200, null for anything else.
LocalFetch(r, o) ==
    /\ req[r].pc = "local"
    /\ LET r0 == [req[r] EXCEPT !.log = Append(@, <<"local", 0>>)]
       IN  req' = [req EXCEPT ![r] =
                IF o = "200"
                THEN [r0 EXCEPT !.pc = "mkdir", !.stage = "local",
                         !.buf = LocalBody, !.oks = @ \cup {<<"local", 0>>}]
                ELSE IF o = "aborted" THEN AwaitEnd(r0)
                ELSE [r0 EXCEPT !.pc = "alt", !.idx = 1, !.sentAt = now]]
    /\ UNCHANGED <<fs, ioerrs>>
    /\ UNCHANGED clearVars
    /\ UNCHANGED <<rateVars, bgVars>>

\* Where the loop of fetchFromAlternativeSource goes after source idx did not
\* answer 200: the next source, or return null after the last.
AfterSourceFailed(r0) ==
    IF r0.idx < NumSources THEN [r0 EXCEPT !.idx = @ + 1, !.sentAt = now]
    ELSE [r0 EXCEPT !.pc = "synth"]

\* What the loop does with a 200 from source idx: return its body.
KeepLooking(r0) ==
    IF r0.idx < NumSources THEN [r0 EXCEPT !.idx = @ + 1, !.sentAt = now]
    ELSE [r0 EXCEPT !.pc = "mkdir", !.stage = "alt", !.buf = AltBody(r0.idx)]

AfterSourceOk(r0) ==
    [r0 EXCEPT !.pc = "mkdir", !.stage = "alt", !.buf = AltBody(r0.idx)]

\* One iteration of the loop of fetchFromAlternativeSource.
AltFetch(r, o) ==
    /\ req[r].pc = "alt"
    /\ LET r0 == [req[r] EXCEPT !.log = Append(@, <<"alt", req[r].idx>>),
                     !.oks = IF o = "200" THEN @ \cup {<<"alt", req[r].idx>>}
                             ELSE @]
           r1 == [r0 EXCEPT !.blocked = @ \/ (o = "403" /\ r0.pre > 0)]
       IN  req' = [req EXCEPT ![r] =
                IF o = "200" THEN AfterSourceOk(r1)
                ELSE IF o = "aborted" THEN AwaitEnd(r1)
                ELSE AfterSourceFailed(r1)]
    /\ UNCHANGED <<fs, ioerrs>>
    /\ UNCHANGED clearVars
    /\ UNCHANGED <<rateVars, bgVars>>

\* TileGenerator.generateTile: the simple tile, the error tile if that throws.
generateTileRethrows(throws) == IF throws THEN <<>> ELSE SimpleTile

generateTile(throws) == IF throws THEN ErrorTile ELSE SimpleTile

\* await tileGenerator.generateTile(xNum, yNum, zNum, routeData)
Synthesize(r, throws) ==
    /\ req[r].pc = "synth"
    /\ req' = [req EXCEPT ![r] =
            [@ EXCEPT !.log = Append(@, <<"synth", 0>>),
                !.pc = "mkdir", !.stage = "synth",
                !.buf = generateTile(throws),
                !.synth = IF throws THEN "threw" ELSE "ok"]]
    /\ UNCHANGED <<fs, ioerrs>>
    /\ UNCHANGED clearVars
    /\ UNCHANGED <<rateVars, bgVars>>

\* await fs.mkdir(cacheDir, {recursive: true})
Mkdir(r, ok) ==
    /\ req[r].pc = "mkdir"
    /\ IoChoice(ok)
    /\ IF ok
       THEN /\ fs' = mkdirp(fs, req[r].z, req[r].x)
            /\ req' = [req EXCEPT ![r] = [@ EXCEPT !.pc = "open"]]
       ELSE /\ fs' = fs
            /\ req' = [req EXCEPT ![r] = AfterWriteFailure(@)]
    /\ UNCHANGED clearVars
    /\ UNCHANGED <<rateVars, bgVars>>

\* fs.writeFile, first half: open(cachePath, 'w').  It fails with ENOENT when
\* the directory is gone, or with an I/O error.
WriteOpen(r, ok) ==
    /\ req[r].pc = "open"
    /\ IoChoice(ok)
    /\ IF ok /\ <<req[r].z, req[r].x>> \in fs.dirs
       THEN /\ fs' = openTrunc(fs, cachePath(req[r]))
            /\ req' = [req EXCEPT ![r] = [@ EXCEPT !.pc = "write", !.fd = TRUE]]
       ELSE /\ fs' = fs
            /\ req' = [req EXCEPT ![r] = AfterWriteFailure(@)]
    /\ UNCHANGED clearVars
    /\ UNCHANGED <<rateVars, bgVars>>

\* What the handler sends after the write-through: res.send(tileBuffer)
AfterWriteNoSend(r0) ==
    [r0 EXCEPT !.pc = "done", !.status = 500, !.nwrites = @ + 1, !.fd = FALSE]

AfterWrite(r0) ==
    [r0 EXCEPT !.pc = "done", !.status = 200, !.body = r0.buf,
        !.nwrites = @ + 1, !.fd = FALSE]

\* fs.writeFile, second half: write and close; then res.send(tileBuffer).
\* fd is FALSE when the file was unlinked after the open: the write then
\* goes to a file no path leads to.
WriteFinish(r, ok) ==
    /\ req[r].pc = "write"
    /\ IoChoice(ok)
    /\ IF ok
       THEN /\ fs' = IF req[r].fd
                     THEN writeBytes(fs, cachePath(req[r]), req[r].buf)
                     ELSE fs
            /\ req' = [req EXCEPT ![r] = AfterWrite(@)]
       ELSE /\ fs' = fs
            /\ req' = [req EXCEPT ![r] = AfterWriteFailure(@)]
    /\ UNCHANGED clearVars
    /\ UNCHANGED <<rateVars, bgVars>>

\* ------------------------------------------------------- cache management
\* A clear that removes files marks every started request (ghost cleared) and
\* detaches the descriptors open on the files it unlinked.
AfterClear(names) ==
    [r \in Reqs |->
        IF req[r].pc = "idle" THEN req[r]
        ELSE [req[r] EXCEPT !.cleared = TRUE,
                 !.fd = @ /\ req[r].z \notin names]]

ZoomNames == {d[1] : d \in fs.dirs} \cup {req[r].z : r \in Reqs}

\* router.delete('/cache') calls tileCache.clearCache()
ClearStart ==
    /\ clearPc \in {"idle", "done"}
    /\ nclears + nzoom < MaxClears
    /\ clearPc' = "rm"
    /\ nclears' = nclears + 1
    /\ clearResult' = "none"
    /\ clearQuiet' = \A r \in Reqs : ~InFlight(r)
    /\ UNCHANGED <<fs, req, ioerrs, zoomResult, zoomArg, nzoom>>
    /\ UNCHANGED <<rateVars, bgVars>>

\* await fs.rm(this.cacheDir, {recursive: true, force: true})
ClearRm(ok) ==
    /\ clearPc = "rm"
    /\ IoChoice(ok)
    /\ IF ok /\ ~rmFails(fs, <<>>)
       THEN /\ fs' = rmRoot(fs)
            /\ req' = AfterClear(ZoomNames)
            /\ clearPc' = "mkdir"
            /\ UNCHANGED clearResult
       ELSE /\ clearPc' = "done"
            /\ clearResult' = IF ok THEN "failure" ELSE "ioerror"
            /\ UNCHANGED <<fs, req>>
    /\ UNCHANGED <<clearQuiet, nclears, zoomResult, zoomArg, nzoom>>
    /\ UNCHANGED <<rateVars, bgVars>>

\* await fs.mkdir(this.cacheDir, {recursive: true}); return {success: true}
ClearMkdir(ok) ==
    /\ clearPc = "mkdir"
    /\ IoChoice(ok)
    /\ clearPc' = "done"
    /\ IF ok
       THEN /\ fs' = mkdirRoot(fs)
            /\ clearResult' = "success"
       ELSE /\ clearResult' = "ioerror"
            /\ UNCHANGED fs
    /\ UNCHANGED <<req, clearQuiet, nclears, zoomResult, zoomArg, nzoom>>
    /\ UNCHANGED <<rateVars, bgVars>>

\* isNaN(zoom) || zoom < 0 || zoom > 18
InvalidLevel(zoom) == zoom.nan \/ zoom.v < 0 \/ zoom.v > MaxZoom

\* const zoomPath = path.join(this.cacheDir, zoom.toString())
zoomPath(zoom) == toString(zoom.v)

\* router.delete('/cache/zoom/:level') and tileCache.clearZoomLevel(zoom)
ClearZoom(level, ok) ==
    /\ nclears + nzoom < MaxClears
    /\ nzoom' = nzoom + 1
    /\ LET zoom == parseInt(level)
       IN  IF InvalidLevel(zoom)
           THEN /\ ok
                /\ zoomResult' = "400"
                /\ zoomArg' = -1
                /\ UNCHANGED <<fs, req, ioerrs>>
           ELSE /\ IoChoice(ok)
                /\ zoomArg' = zoom.v
                /\ IF ok /\ ~rmFails(fs, <<zoomPath(zoom)>>)
                   THEN /\ fs' = rmZoom(fs, zoomPath(zoom))
                        /\ req' = AfterClear({zoomPath(zoom)})
                        /\ zoomResult' = "success"
                   ELSE /\ zoomResult' = IF ok THEN "failure" ELSE "ioerror"
                        /\ UNCHANGED <<fs, req>>
    /\ UNCHANGED <<clearPc, clearResult, clearQuiet, nclears>>
    /\ UNCHANGED <<rateVars, bgVars>>

\* TileCache.getCacheStats(): the walk over the store, taken at one instant.
RECURSIVE SumSizes(_, _)
SumSizes(f, S) ==
    IF S = {} THEN 0
    ELSE LET p == CHOOSE q \in S : TRUE
         IN  Len(f[p]) + SumSizes(f, S \ {p})

\* The zoom directories the walk counts: if (isNaN(parseInt(zoomDir))) continue
CountedZoomDirs(f) ==
    IF f.root THEN {d[1] : d \in {e \in f.dirs : Len(e) = 1 /\ ~parseInt(e[1]).nan}}
    ELSE {}

TilesUnder(f, name) == {p \in DOMAIN f.files : p[1] = name}

getCacheStats(f) ==
    LET zs == CountedZoomDirs(f)
        all == {p \in DOMAIN f.files : p[1] \in zs}
    IN  [totalTiles |-> Cardinality(all),
         totalSize |-> SumSizes(f.files, all),
         zoomLevels |-> [n \in zs |->
             [tiles |-> Cardinality(TilesUnder(f, n)),
              size |-> SumSizes(f.files, TilesUnder(f, n))]]]

\* TileCache.getCacheStats() as it runs: one step for each awaited readdir or
\* stat, so that tile requests and clears run between them.
NoLevels == [n \in {} |-> [tiles |-> 0, size |-> 0]]

\* pc: "idle", "root", "readzoom", "readx", "stat", "done"; zs, xs and ts are
\* the entries of the three loops still to visit; result is "none", "stats"
\* for the statistics object and "error" for {error: error.message}.
IdleWalk ==
    [pc |-> "idle", zs |-> <<>>, xs |-> <<>>, ts |-> <<>>, z |-> <<>>,
     x |-> <<>>, zoomTiles |-> 0, zoomSize |-> 0, totalTiles |-> 0,
     totalSize |-> 0, zoomLevels |-> NoLevels, rootMissing |-> FALSE,
     result |-> "none"]

\* The orders in which readdir may list the entries S.
Orders(S) ==
    {s \in [1..Cardinality(S) -> S] :
        \A i, j \in 1..Cardinality(S) : i # j => s[i] # s[j]}

\* if (isNaN(parseInt(zoomDir))) continue
IsZoomDir(name) == ~parseInt(name).nan

\* for (const zoomDir of zoomDirs): the next zoom directory, or the return
EnterZoom(w) ==
    IF w.zs # <<>>
    THEN [w EXCEPT !.pc = "readzoom", !.z = Head(w.zs), !.zs = Tail(w.zs),
                   !.zoomTiles = 0, !.zoomSize = 0]
    ELSE [w EXCEPT !.pc = "done", !.result = "stats"]

\* stats.zoomLevels[zoomDir] = {...}; stats.totalTiles += zoomTiles; ...
CloseZoom(w) ==
    [w EXCEPT !.zoomLevels = (w.z :> [tiles |-> w.zoomTiles,
                                      size |-> w.zoomSize]) @@ @,
              !.totalTiles = @ + w.zoomTiles,
              !.totalSize = @ + w.zoomSize]

\* for (const xDir of xDirs): the next x directory, or the end of the zoom
EnterX(w) ==
    IF w.xs # <<>>
    THEN [w EXCEPT !.pc = "readx", !.x = Head(w.xs), !.xs = Tail(w.xs)]
    ELSE EnterZoom(CloseZoom(w))

\* for (const tile of tiles): the next tile, or the end of the x directory
EnterTile(w) ==
    IF w.ts # <<>> THEN [w EXCEPT !.pc = "stat"] ELSE EnterX(w)

\* router.get('/cache/stats') calls tileCache.getCacheStats()
StatsStart ==
    /\ walk.pc = "idle"
    /\ walk' = [IdleWalk EXCEPT !.pc = "root"]
    /\ UNCHANGED <<storeVars, rateVars, pl, tilesCall, dl>>

\* const zoomDirs = await fs.readdir(this.cacheDir).catch(() => [])
StatsReadRoot(ok) ==
    /\ walk.pc = "root"
    /\ IoChoice(ok)
    /\ \E zoomDirs \in IF ok /\ fs.root
                       THEN Orders({d[1] : d \in {e \in fs.dirs : Len(e) = 1}})
                       ELSE {<<>>} :
          walk' = EnterZoom([walk EXCEPT !.zs = SelectSeq(zoomDirs, IsZoomDir),
                                         !.rootMissing = ~fs.root])
    /\ UNCHANGED <<fs, req, clearVars, rateVars, pl, tilesCall, dl>>

\* const xDirs = await fs.readdir(zoomPath).catch(() => [])
StatsReadZoom(ok) ==
    /\ walk.pc = "readzoom"
    /\ IoChoice(ok)
    /\ \E xDirs \in IF ok /\ <<walk.z>> \in fs.dirs
                    THEN Orders({d[2] : d \in {e \in fs.dirs :
                                    Len(e) = 2 /\ e[1] = walk.z}})
                    ELSE {<<>>} :
          walk' = EnterX([walk EXCEPT !.xs = xDirs])
    /\ UNCHANGED <<fs, req, clearVars, rateVars, pl, tilesCall, dl>>

\* const tiles = await fs.readdir(xPath).catch(() => [])
StatsReadX(ok) ==
    /\ walk.pc = "readx"
    /\ IoChoice(ok)
    /\ \E tiles \in IF ok /\ <<walk.z, walk.x>> \in fs.dirs
                    THEN Orders({p[3] : p \in {q \in DOMAIN fs.files :
                                    q[1] = walk.z /\ q[2] = walk.x}})
                    ELSE {<<>>} :
          walk' = EnterTile([walk EXCEPT !.ts = tiles])
    /\ UNCHANGED <<fs, req, clearVars, rateVars, pl, tilesCall, dl>>

\* The outer catch of getCacheStats: return {error: error.message}
StatFailed(w) == [w EXCEPT !.pc = "done", !.result = "error"]

\* const stat = await fs.stat(tilePath); zoomTiles++; zoomSize += stat.size
StatsStat(ok) ==
    /\ walk.pc = "stat"
    /\ IoChoice(ok)
    /\ LET tilePath == <<walk.z, walk.x, Head(walk.ts)>>
       IN  IF ok /\ tilePath \in DOMAIN fs.files
           THEN walk' = EnterTile([walk EXCEPT
                            !.ts = Tail(@),
                            !.zoomTiles = @ + 1,
                            !.zoomSize = @ + Len(fs.files[tilePath])])
           ELSE walk' = StatFailed(walk)
    /\ UNCHANGED <<fs, req, clearVars, rateVars, pl, tilesCall, dl>>

\* ------------------------------------------------------------ rate limiter
\* osm is the state of the call's fetchTileFromOSM: "none", "caching",
\* "resolved", "rejected"; status and hdr are what the server answered.
IdleCall ==
    [pc |-> "idle", fireAt |-> 0, issuedAt |-> 0, seen |-> {},
     osm |-> "none", status |-> 0, hdr |-> <<>>, value |-> <<>>]

Max(a, b) == IF a > b THEN a ELSE b

\* const delay = Math.max(0, MIN_REQUEST_INTERVAL - timeSinceLastRequest)
DelayFromCall(nowT, last) == Max(0, MIN_REQUEST_INTERVAL - nowT)

Delay(nowT, last) == Max(0, MIN_REQUEST_INTERVAL - (nowT - last))

\* processQueuedRequest(requestInfo) up to setTimeout(..., delay)
Call(c) ==
    /\ calls[c].pc = "idle"
    /\ c > 1 => calls[c - 1].pc # "idle"
    /\ calls' = [calls EXCEPT ![c] =
            [@ EXCEPT !.pc = "timer",
                !.fireAt = now + Delay(now, lastRequestTime),
                !.seen = {d \in Calls : calls[d].pc = "issued"}]]
    /\ UNCHANGED <<now, ticks, lastRequestTime>>
    /\ UNCHANGED <<storeVars, bgVars>>

\* The timer callback: lastRequestTime = Date.now(); fetchTileFromOSM(...)
TimerFire(c) ==
    /\ calls[c].pc = "timer"
    /\ now >= calls[c].fireAt
    /\ lastRequestTime' = now
    /\ calls' = [calls EXCEPT ![c] = [@ EXCEPT !.pc = "issued", !.issuedAt = now]]
    /\ UNCHANGED <<now, ticks>>
    /\ UNCHANGED <<storeVars, bgVars>>

\* Time passes.
Tick ==
    /\ ticks < MaxTicks
    /\ ticks' = ticks + 1
    /\ now' = now + TickMs
    /\ UNCHANGED <<lastRequestTime, calls>>
    /\ UNCHANGED <<storeVars, bgVars>>

\* -------------------------------------------------------- coordinate math
MaxEnumZoom == 2     \* largest zoom getTilesInBounds is called with

\* The latitudes and longitudes of the bounds tried, in degrees.
Lats == {-60, -1, 0, 1, 60}

Lons == {-90, -1, 0, 1, 90}

MercatorBits == 20

\* (1 - Math.asinh(Math.tan(latRad)) / Math.PI) / 2, in units of
\* 2^-MercatorBits, rounded down.
MercatorQ(lat) ==
    CASE lat = -60 -> 744069
      [] lat = -1 -> 527200
      [] lat = 0 -> 524288
      [] lat = 1 -> 521375
      [] lat = 60 -> 304506

\* deg2tile(lat, lon, zoom): Math.floor of the tile fractions times 2^zoom
\* (for y, q * 2^zoom / 2^MercatorBits without the large product)
deg2tile(lat, lon, zoom) ==
    [x |-> ((lon + 180) * 2^zoom) \div 360,
     y |-> MercatorQ(lat) \div 2^(MercatorBits - zoom)]

\* Math.min and Math.max
First(a, b) == a

Min(a, b) == IF a < b THEN a ELSE b

\* for (let y = ylo; y <= yhi; y++) tiles.push({x, y, z})
Column(z, x, ylo, yhi) ==
    [i \in 1..(yhi - ylo + 1) |-> [x |-> x, y |-> ylo + i - 1, z |-> z]]

\* for (let x = ...; x <= xhi; x++)
RECURSIVE Columns(_, _, _, _, _)
Columns(z, x, xhi, ylo, yhi) ==
    IF x > xhi THEN <<>>
    ELSE Column(z, x, ylo, yhi) \o Columns(z, x + 1, xhi, ylo, yhi)

\* for (let z = minZoom; z <= maxZoom; z++)
RECURSIVE Levels(_, _, _)
Levels(bounds, z, maxZoom) ==
    IF z > maxZoom THEN <<>>
    ELSE LET nwTile == deg2tile(bounds.north, bounds.west, z)
             seTile == deg2tile(bounds.south, bounds.east, z)
         IN  Columns(z, Min(nwTile.x, seTile.x), Max(nwTile.x, seTile.x),
                     Min(nwTile.y, seTile.y), Max(nwTile.y, seTile.y))
             \o Levels(bounds, z + 1, maxZoom)

getTilesInBounds(bounds, minZoom, maxZoom) == Levels(bounds, minZoom, maxZoom)

NoTilesCall ==
    [called |-> FALSE, bounds |-> [north |-> 0, south |-> 0, east |-> 0, west |-> 0],
     minZoom |-> 0, maxZoom |-> 0, tiles |-> <<>>]

GeoBounds == [north : Lats, south : Lats, east : Lons, west : Lons]

\* A call of getTilesInBounds(bounds, minZoom, maxZoom).
EnumerateTiles(bounds, minZoom, maxZoom) ==
    /\ ~tilesCall.called
    /\ tilesCall' = [called |-> TRUE, bounds |-> bounds, minZoom |-> minZoom,
                     maxZoom |-> maxZoom,
                     tiles |-> getTilesInBounds(bounds, minZoom, maxZoom)]
    /\ UNCHANGED <<storeVars, rateVars, pl, walk, dl>>

\* ------------------------------------------------------------------ preload
PRELOAD_DELAY == 300

\* A JSON value of the request body: a number, or undefined.
Undefined == [def |-> FALSE, v |-> 0]

Number(n) == [def |-> TRUE, v |-> n]

\* The bodies posted: bounds of three tiles over zooms 1..2; a point at zooms
\* 18..19; bounds on the equator; no bounds; a point with maxZoom left to its
\* default; an empty zoom range.
PreloadBodies ==
    { [hasBounds |-> TRUE, north |-> Number(60), south |-> Number(1),
       east |-> Number(90), west |-> Number(1),
       minZoom |-> Number(1), maxZoom |-> Number(2)],
      [hasBounds |-> TRUE, north |-> Number(1), south |-> Number(1),
       east |-> Number(1), west |-> Number(1),
       minZoom |-> Number(18), maxZoom |-> Number(19)],
      [hasBounds |-> TRUE, north |-> Number(1), south |-> Number(0),
       east |-> Number(1), west |-> Number(-1),
       minZoom |-> Number(1), maxZoom |-> Number(1)],
      [hasBounds |-> FALSE, north |-> Undefined, south |-> Undefined,
       east |-> Undefined, west |-> Undefined,
       minZoom |-> Number(1), maxZoom |-> Number(1)],
      [hasBounds |-> TRUE, north |-> Number(1), south |-> Number(1),
       east |-> Number(1), west |-> Number(1),
       minZoom |-> Number(15), maxZoom |-> Undefined],
      [hasBounds |-> TRUE, north |-> Number(1), south |-> Number(1),
       east |-> Number(1), west |-> Number(1),
       minZoom |-> Number(2), maxZoom |-> Number(1)] }

NoBody ==
    [hasBounds |-> FALSE, north |-> Undefined, south |-> Undefined,
     east |-> Undefined, west |-> Undefined,
     minZoom |-> Undefined, maxZoom |-> Undefined]

\* !v of a number or undefined
Falsy(v) == ~v.def \/ v.v = 0

\* if (!bounds || !bounds.north || !bounds.south || !bounds.east || !bounds.west)
InvalidBounds(body) ==
    \/ ~body.hasBounds
    \/ Falsy(body.north) \/ Falsy(body.south)
    \/ Falsy(body.east) \/ Falsy(body.west)

\* const { bounds, minZoom = 10, maxZoom = 15 } = req.body
orDefault(v, d) == IF v.def THEN v.v ELSE d

\* pc is "idle", "fetch" (awaiting fetch), "delay" (awaiting the timer) or
\* "done"; post is the response to the POST: "none", "400", "ack".
IdlePreload ==
    [pc |-> "idle", post |-> "none", body |-> NoBody, tiles |-> <<>>, k |-> 0,
     loaded |-> 0, failed |-> 0, wake |-> 0, aborted |-> FALSE,
     \* ghost: when the last fetch settled
     settledAt |-> 0]

\* `http://localhost:3000/api/tiles/${tile.z}/${tile.x}/${tile.y}.png`
tileUrl(tile) == <<toString(tile.z), toString(tile.x), toString(tile.y)>>

\* The loop of preloadBounds from its top to the await of fetch.
NextTile(p) ==
    IF p.k < Len(p.tiles) THEN [p EXCEPT !.pc = "fetch", !.k = @ + 1]
    ELSE [p EXCEPT !.pc = "done"]

\* router.post('/cache/preload'): validate, call preloadBounds, which runs
\* to its first await, and send the acknowledgement.
PreloadPost(body) ==
    /\ pl.post = "none"
    /\ IF InvalidBounds(body)
       THEN pl' = [pl EXCEPT !.post = "400", !.body = body]
       ELSE LET bounds == [north |-> body.north.v, south |-> body.south.v,
                           east |-> body.east.v, west |-> body.west.v]
                tiles == getTilesInBounds(bounds, orDefault(body.minZoom, 10),
                                          orDefault(body.maxZoom, 15))
            IN  /\ Len(tiles) <= MaxReq
                /\ pl' = NextTile([pl EXCEPT !.post = "ack", !.body = body,
                                      !.tiles = tiles])
    /\ UNCHANGED <<storeVars, rateVars, tilesCall, walk, dl>>

\* The tile endpoint takes up the request the preload's fetch has sent.
PreloadArrive(r) ==
    /\ pl.pc = "fetch"
    /\ \A q \in Reqs : req[q].pre # pl.k
    /\ Arrive(r, tileUrl(pl.tiles[pl.k]), pl.k)

\* setTimeout(resolve, PRELOAD_DELAY) at time t
wakeAtOnce(t) == t

wakeTime(t) == t + PRELOAD_DELAY

\* The rest of an iteration once its fetch has settled: the progress log,
\* then the delay unless the counters have reached the number of tiles.
StopAfterTile(p, t) == [p EXCEPT !.pc = "done", !.settledAt = t]

AfterTile(p, t) ==
    IF p.loaded + p.failed < Len(p.tiles)
    THEN [p EXCEPT !.pc = "delay", !.wake = wakeTime(t), !.settledAt = t]
    ELSE NextTile([p EXCEPT !.settledAt = t])

\* Every response counted as loaded, whatever its status.
AfterResponseAllLoaded(p, status, t) == AfterTile([p EXCEPT !.loaded = @ + 1], t)

\* if (response.ok) loaded++ else { failed++; if (response.status === 403) break }
AfterResponse(p, status, t) ==
    IF status >= 200 /\ status <= 299
    THEN AfterTile([p EXCEPT !.loaded = @ + 1], t)
    ELSE IF status = 403
         THEN [p EXCEPT !.failed = @ + 1, !.pc = "done", !.aborted = TRUE,
                  !.settledAt = t]
         ELSE AfterTile([p EXCEPT !.failed = @ + 1], t)

\* await fetch(...) resolves with the response of the tile endpoint.
PreloadResponse(r) ==
    /\ pl.pc = "fetch"
    /\ req[r].pre = pl.k
    /\ req[r].pc = "done"
    /\ pl' = AfterResponse(pl, req[r].status, now)
    /\ UNCHANGED <<storeVars, rateVars, tilesCall, walk, dl>>

\* await fetch(...) rejects: the request did not reach the endpoint.
PreloadFetchError ==
    /\ pl.pc = "fetch"
    /\ \A q \in Reqs : req[q].pre # pl.k
    /\ pl' = AfterTile([pl EXCEPT !.failed = @ + 1], now)
    /\ UNCHANGED <<storeVars, rateVars, tilesCall, walk, dl>>

\* The timer of the delay fires and the loop goes to its next tile.
PreloadTimer ==
    /\ pl.pc = "delay"
    /\ now >= pl.wake
    /\ pl' = NextTile(pl)
    /\ UNCHANGED <<storeVars, rateVars, tilesCall, walk, dl>>

\* ---------------------------------------------------------- fetchTileFromOSM
\* The statuses the tile server answers, and its Retry-After header: <<>> when
\* the response has none, <<v>> when it has the value v.
OsmStatuses == {200, 429, 403, 404, 500, 301}

RetryHeaders == {<<>>, <<"">>, <<"0">>, <<"30">>}

OsmBody == <<5>>

\* requestInfo.cacheDir and requestInfo.cachePath
OsmTile == [z |-> <<"1">>, x |-> <<"0">>, y |-> <<"0">>]

\* const retryAfter = headers['retry-after'] || 60
retryAfterRaw(h) == IF h = <<>> THEN "undefined" ELSE h[1]

retryAfter(h) == IF h = <<>> \/ h[1] = "" THEN "60" ELSE h[1]

\* The message of the Error a non-200 response is rejected with.
rejection(status, h) ==
    CASE status = 429 ->
            <<"Rate limited. Retry after ", retryAfter(h), " seconds">>
      [] status = 403 -> <<"Access blocked by OSM tile server">>
      [] status = 404 -> <<"Tile not found">>
      [] OTHER -> <<"HTTP ">> \o toString(status)

\* The response callback of https.get: a 200 is read and cached, anything
\* else rejects the promise.
OsmResponse(c, status, h) ==
    /\ calls[c].pc = "issued"
    /\ calls[c].osm = "none"
    /\ calls' = [calls EXCEPT ![c] =
            IF status = 200
            THEN [@ EXCEPT !.osm = "caching", !.status = status, !.hdr = h]
            ELSE [@ EXCEPT !.osm = "rejected", !.status = status, !.hdr = h,
                     !.value = rejection(status, h)]]
    /\ UNCHANGED <<now, ticks, lastRequestTime>>
    /\ UNCHANGED <<storeVars, bgVars>>

\* request.on('error') and request.on('timeout')
OsmFailure(c, why) ==
    /\ calls[c].pc = "issued"
    /\ calls[c].osm = "none"
    /\ calls' = [calls EXCEPT ![c] =
            [@ EXCEPT !.osm = "rejected", !.value = <<why>>]]
    /\ UNCHANGED <<now, ticks, lastRequestTime>>
    /\ UNCHANGED <<storeVars, bgVars>>

\* osmResponse.on('end'): mkdir, writeFile, resolve(tileBuffer); a failed
\* write is logged and the body is resolved all the same.
OsmEnd(c, ok) ==
    /\ calls[c].osm = "caching"
    /\ IoChoice(ok)
    /\ fs' = IF ok
             THEN writeBytes(openTrunc(mkdirp(fs, OsmTile.z, OsmTile.x),
                                       cachePath(OsmTile)),
                             cachePath(OsmTile), OsmBody)
             ELSE fs
    /\ calls' = [calls EXCEPT ![c] =
            [@ EXCEPT !.osm = "resolved", !.value = OsmBody]]
    /\ UNCHANGED <<req, now, ticks, lastRequestTime>>
    /\ UNCHANGED <<clearVars, bgVars>>

\* ------------------------------------------------- region download script
\* scripts/download-region-tiles.js.  Its cache directory is the store of the
\* server.
\* this.delay = 500
delay == 500

\* The arguments downloadRegion is called with: three tiles, two tiles, one
\* tile, none.
DownloadArgs ==
    { [bounds |-> [north |-> 60, south |-> 1, east |-> 90, west |-> 1],
       minZoom |-> 1, maxZoom |-> 2],
      [bounds |-> [north |-> 1, south |-> 1, east |-> 1, west |-> 1],
       minZoom |-> 1, maxZoom |-> 2],
      [bounds |-> [north |-> 1, south |-> 1, east |-> 1, west |-> 1],
       minZoom |-> 1, maxZoom |-> 1],
      [bounds |-> [north |-> 1, south |-> 1, east |-> 1, west |-> 1],
       minZoom |-> 2, maxZoom |-> 1] }

\* What https.get of downloadTile ends with: a response with a status, a
\* connection error, or the timeout.
DownloadOutcomes == {"200", "403", "429", "404", "error", "timeout"}

\* The message of the Error downloadTile rejects with.
rejectionMessage(o) ==
    CASE o = "403" -> "Access blocked by OSM"
      [] o = "429" -> "Rate limited"
      [] o = "timeout" -> "Request timeout"
      [] o = "error" -> "socket hang up"
      [] o = "io" -> "EIO: i/o error"
      [] OTHER -> "HTTP " \o o

\* pc: "idle", "access", "wait", "get", "mkdir", "open", "write", "done"; i is
\* the tile of the current iteration, counted from 1.
IdleDownload ==
    [pc |-> "idle", runs |-> 0, tiles |-> <<>>, i |-> 0,
     downloaded |-> 0, cached |-> 0, failed |-> 0, totalSize |-> 0,
     lastRequestTime |-> 0, wake |-> 0,
     \* ghosts: the calls of downloadTile, the tiles https.get was called
     \* for, the tile whose request was answered 403
     attempted |-> 0, sent |-> {}, blockedAt |-> 0]

\* path.join(this.cacheDir, z.toString(), x.toString()), `${y}.png`
downloadPath(tile) == <<toString(tile.z), toString(tile.x), toString(tile.y)>>

CurrentPath == downloadPath(dl.tiles[dl.i])

\* for (let i = 0; i < tiles.length; i++): the next call of downloadTile, or
\* the return of downloadRegion.
NextDownload(d) ==
    IF d.i < Len(d.tiles)
    THEN [d EXCEPT !.pc = "access", !.i = @ + 1, !.attempted = @ + 1]
    ELSE [d EXCEPT !.pc = "done"]

\* error.message.includes('Access blocked')
AccessBlocked(msg) == msg = "Access blocked by OSM"

\* The catch of the loop with every failure taken alike.
AfterRejectionGoOn(d, msg) == NextDownload([d EXCEPT !.failed = @ + 1])

\* catch (error) { failed++; if (error.message.includes(...)) break }
AfterRejection(d, msg) ==
    IF AccessBlocked(msg)
    THEN [d EXCEPT !.failed = @ + 1, !.pc = "done"]
    ELSE NextDownload([d EXCEPT !.failed = @ + 1])

\* this.lastRequestTime = Date.now(); https.get(tileUrl, ...)
SendRequest(d) ==
    [d EXCEPT !.pc = "get", !.lastRequestTime = now, !.sent = @ \cup {d.i}]

\* main(): a new downloader, downloadRegion up to its first await.
DownloadStart(args) ==
    /\ dl.pc \in {"idle", "done"}
    /\ dl.runs < MaxRuns
    /\ dl' = NextDownload([IdleDownload EXCEPT
                !.runs = dl.runs + 1,
                !.tiles = getTilesInBounds(args.bounds, args.minZoom,
                                           args.maxZoom)])
    /\ UNCHANGED <<storeVars, rateVars, pl, tilesCall, walk>>

\* await fs.access(cachePath): {cached: true} if the file is there; if not,
\* the rate limiting, and the request unless it has to wait.
DownloadAccess ==
    /\ dl.pc = "access"
    /\ dl' = IF CurrentPath \in DOMAIN fs.files
             THEN NextDownload([dl EXCEPT !.cached = @ + 1])
             ELSE IF now - dl.lastRequestTime < delay
                  THEN [dl EXCEPT !.pc = "wait",
                           !.wake = now + (delay
                                           - (now - dl.lastRequestTime))]
                  ELSE SendRequest(dl)
    /\ UNCHANGED <<storeVars, rateVars, pl, tilesCall, walk>>

\* await new Promise(resolve => setTimeout(resolve, this.delay - ...))
DownloadTimer ==
    /\ dl.pc = "wait"
    /\ now >= dl.wake
    /\ dl' = SendRequest(dl)
    /\ UNCHANGED <<storeVars, rateVars, pl, tilesCall, walk>>

\* The callback of https.get, request.on('error') or request.on('timeout').
DownloadResponse(o) ==
    /\ dl.pc = "get"
    /\ LET d0 == [dl EXCEPT !.blockedAt = IF o = "403" THEN dl.i ELSE @]
       IN  dl' = IF o = "200" THEN [dl EXCEPT !.pc = "mkdir"]
                 ELSE AfterRejection(d0, rejectionMessage(o))
    /\ UNCHANGED <<storeVars, rateVars, pl, tilesCall, walk>>

\* response.on('end'): await fs.mkdir(cacheDir, {recursive: true})
DownloadMkdir(ok) ==
    /\ dl.pc = "mkdir"
    /\ IoChoice(ok)
    /\ IF ok
       THEN /\ fs' = mkdirp(fs, CurrentPath[1], CurrentPath[2])
            /\ dl' = [dl EXCEPT !.pc = "open"]
       ELSE /\ fs' = fs
            /\ dl' = AfterRejection(dl, rejectionMessage("io"))
    /\ UNCHANGED <<req, clearVars, rateVars, pl, tilesCall, walk>>

\* await fs.writeFile(cachePath, buffer), first half: open(cachePath, 'w')
DownloadOpen(ok) ==
    /\ dl.pc = "open"
    /\ IoChoice(ok)
    /\ IF ok /\ <<CurrentPath[1], CurrentPath[2]>> \in fs.dirs
       THEN /\ fs' = openTrunc(fs, CurrentPath)
            /\ dl' = [dl EXCEPT !.pc = "write"]
       ELSE /\ fs' = fs
            /\ dl' = AfterRejection(dl, rejectionMessage("io"))
    /\ UNCHANGED <<req, clearVars, rateVars, pl, tilesCall, walk>>

\* await fs.writeFile(cachePath, buffer), second half, and
\* resolve({downloaded: true, size: buffer.length}); downloaded++
DownloadWrite(ok) ==
    /\ dl.pc = "write"
    /\ IoChoice(ok)
    /\ IF ok
       THEN /\ fs' = writeBytes(fs, CurrentPath, OsmBody)
            /\ dl' = NextDownload([dl EXCEPT !.downloaded = @ + 1,
                                      !.totalSize = @ + Len(OsmBody)])
       ELSE /\ fs' = fs
            /\ dl' = AfterRejection(dl, rejectionMessage("io"))
    /\ UNCHANGED <<req, clearVars, rateVars, pl, tilesCall, walk>>

\* ------------------------------------------------------------ specifications
Init ==
    /\ fs = [root |-> FALSE, dirs |-> {}, files |-> EmptyFiles]
    /\ req = [r \in Reqs |-> IdleReq]
    /\ ioerrs = 0
    /\ clearPc = "idle"
    /\ clearResult = "none"
    /\ clearQuiet = FALSE
    /\ nclears = 0
    /\ zoomResult = "none"
    /\ zoomArg = -1
    /\ nzoom = 0
    /\ now = StartTime
    /\ ticks = 0
    /\ lastRequestTime = 0
    /\ calls = [c \in Calls |-> IdleCall]
    /\ tilesCall = NoTilesCall
    /\ pl = IdlePreload
    /\ walk = IdleWalk
    /\ dl = IdleDownload

Next ==
    \/ \E r \in ConcReqs, p \in TileParams : Start(r, p)
    \/ \E r \in ConcReqs : ReadCache(r)
    \/ \E r \in ConcReqs, o \in Outcomes : LocalFetch(r, o)
    \/ \E r \in ConcReqs, o \in Outcomes : AltFetch(r, o)
    \/ \E r \in ConcReqs, throws \in BOOLEAN : Synthesize(r, throws)
    \/ \E r \in ConcReqs, ok \in BOOLEAN : Mkdir(r, ok)
    \/ \E r \in ConcReqs, ok \in BOOLEAN : WriteOpen(r, ok)
    \/ \E r \in ConcReqs, ok \in BOOLEAN : WriteFinish(r, ok)
    \/ ClearStart
    \/ \E ok \in BOOLEAN : ClearRm(ok)
    \/ \E ok \in BOOLEAN : ClearMkdir(ok)
    \/ \E level \in LevelParams, ok \in BOOLEAN : ClearZoom(level, ok)

\* The tile route and the cache management operations, interleaved.
Spec == Init /\ [][Next]_vars

NextHerd ==
    \/ \E r \in Reqs, p \in HerdParams : Start(r, p)
    \/ \E r \in Reqs : ReadCache(r)
    \/ \E r \in Reqs, o \in Outcomes : LocalFetch(r, o)
    \/ \E r \in Reqs, o \in Outcomes : AltFetch(r, o)
    \/ \E r \in Reqs, throws \in BOOLEAN : Synthesize(r, throws)
    \/ \E r \in Reqs : Mkdir(r, TRUE)
    \/ \E r \in Reqs : WriteOpen(r, TRUE)
    \/ \E r \in Reqs : WriteFinish(r, TRUE)

\* Tile requests for one coordinate, with a working disk and no clear.
SpecHerd == Init /\ [][NextHerd]_vars

NextRate ==
    \/ \E c \in Calls : Call(c)
    \/ \E c \in Calls : TimerFire(c)
    \/ Tick

\* The rate limiter under any interleaving of its calls, timers and the clock.
SpecRate == Init /\ [][NextRate]_vars

NextOsm ==
    \/ \E c \in OsmCalls : Call(c)
    \/ \E c \in OsmCalls : TimerFire(c)
    \/ \E c \in OsmCalls, status \in OsmStatuses, h \in RetryHeaders :
            OsmResponse(c, status, h)
    \/ \E c \in OsmCalls, why \in {"error", "Request timeout"} :
            OsmFailure(c, why)
    \/ \E c \in OsmCalls, ok \in BOOLEAN : OsmEnd(c, ok)

\* The rate-limited fetches and what the tile server answers them.
SpecOsm == Init /\ [][NextOsm]_vars

NextTiles ==
    \E bounds \in GeoBounds, minZoom, maxZoom \in 0..MaxEnumZoom :
        EnumerateTiles(bounds, minZoom, maxZoom)

\* getTilesInBounds called once, with any bounds and zoom range.
SpecTiles == Init /\ [][NextTiles]_vars

NextPreload ==
    \/ \E body \in PreloadBodies : PreloadPost(body)
    \/ \E r \in Reqs : PreloadArrive(r)
    \/ \E r \in Reqs : PreloadResponse(r)
    \/ PreloadFetchError
    \/ PreloadTimer
    \/ Tick
    \/ \E r \in Reqs : ReadCache(r)
    \/ \E r \in Reqs, o \in Outcomes : LocalFetch(r, o)
    \/ \E r \in Reqs, o \in Outcomes : AltFetch(r, o)
    \/ \E r \in Reqs, throws \in BOOLEAN : Synthesize(r, throws)
    \/ \E r \in Reqs, ok \in BOOLEAN : Mkdir(r, ok)
    \/ \E r \in Reqs, ok \in BOOLEAN : WriteOpen(r, ok)
    \/ \E r \in Reqs, ok \in BOOLEAN : WriteFinish(r, ok)

\* One POST /cache/preload, the preload it starts and the tile requests the
\* preload makes.
SpecPreload == Init /\ [][NextPreload]_vars

NextStats ==
    \/ \E r \in WalkReqs, p \in TileParams \cup PathParams : Start(r, p)
    \/ \E r \in WalkReqs : ReadCache(r)
    \/ \E r \in WalkReqs, o \in Outcomes : LocalFetch(r, o)
    \/ \E r \in WalkReqs, o \in Outcomes : AltFetch(r, o)
    \/ \E r \in WalkReqs, throws \in BOOLEAN : Synthesize(r, throws)
    \/ \E r \in WalkReqs, ok \in BOOLEAN : Mkdir(r, ok)
    \/ \E r \in WalkReqs, ok \in BOOLEAN : WriteOpen(r, ok)
    \/ \E r \in WalkReqs, ok \in BOOLEAN : WriteFinish(r, ok)
    \/ ClearStart
    \/ \E ok \in BOOLEAN : ClearRm(ok)
    \/ \E ok \in BOOLEAN : ClearMkdir(ok)
    \/ \E level \in LevelParams, ok \in BOOLEAN : ClearZoom(level, ok)
    \/ StatsStart
    \/ \E ok \in BOOLEAN : StatsReadRoot(ok)
    \/ \E ok \in BOOLEAN : StatsReadZoom(ok)
    \/ \E ok \in BOOLEAN : StatsReadX(ok)
    \/ \E ok \in BOOLEAN : StatsStat(ok)

\* One GET /cache/stats beside a tile request and the cache management.
SpecStats == Init /\ [][NextStats]_vars

NextPaths ==
    \/ \E r \in ConcReqs, p \in PathParams : Start(r, p)
    \/ \E r \in ConcReqs : ReadCache(r)
    \/ \E r \in ConcReqs, o \in Outcomes : LocalFetch(r, o)
    \/ \E r \in ConcReqs, o \in Outcomes : AltFetch(r, o)
    \/ \E r \in ConcReqs, throws \in BOOLEAN : Synthesize(r, throws)
    \/ \E r \in ConcReqs : Mkdir(r, TRUE)
    \/ \E r \in ConcReqs : WriteOpen(r, TRUE)
    \/ \E r \in ConcReqs : WriteFinish(r, TRUE)

\* Tile requests with path parameters of any spelling, with a working disk
\* and no clear.
SpecPaths == Init /\ [][NextPaths]_vars

NextProviders ==
    \/ \E r \in ConcReqs, p \in TileParams : Start(r, p)
    \/ \E r \in ConcReqs : ReadCache(r)
    \/ \E r \in ConcReqs, o \in Outcomes : LocalFetch(r, o)
    \/ \E r \in ConcReqs, o \in Outcomes : AltFetch(r, o)
    \/ \E r \in ConcReqs, throws \in BOOLEAN : Synthesize(r, throws)
    \/ \E r \in ConcReqs : Mkdir(r, TRUE)
    \/ \E r \in ConcReqs : WriteOpen(r, TRUE)
    \/ \E r \in ConcReqs : WriteFinish(r, TRUE)
    \/ Tick

\* Tile requests and the clock, with a working disk and no clear.
SpecProviders == Init /\ [][NextProviders]_vars

\* The steps of tile request r, the outcomes of its outbound requests
\* included.
Step(r) ==
    \/ ReadCache(r)
    \/ \E o \in BodyOutcomes : LocalFetch(r, o)
    \/ \E o \in BodyOutcomes : AltFetch(r, o)
    \/ \E throws \in BOOLEAN : Synthesize(r, throws)
    \/ \E ok \in BOOLEAN : Mkdir(r, ok)
    \/ \E ok \in BOOLEAN : WriteOpen(r, ok)
    \/ \E ok \in BOOLEAN : WriteFinish(r, ok)

NextLive ==
    \/ \E r \in ConcReqs, p \in TileParams : Start(r, p)
    \/ \E r \in ConcReqs : Step(r)

\* Tile requests under fair scheduling: every awaited operation of a request
\* eventually settles in one of its outcomes, and a response body may never
\* end.
SpecLive ==
    Init /\ [][NextLive]_vars /\ \A r \in ConcReqs : WF_vars(Step(r))

NextDownloads ==
    \/ \E args \in DownloadArgs : DownloadStart(args)
    \/ DownloadAccess
    \/ DownloadTimer
    \/ \E o \in DownloadOutcomes : DownloadResponse(o)
    \/ \E ok \in BOOLEAN : DownloadMkdir(ok)
    \/ \E ok \in BOOLEAN : DownloadOpen(ok)
    \/ \E ok \in BOOLEAN : DownloadWrite(ok)
    \/ Tick

\* The region download script run up to MaxRuns times, one run after the
\* other, on the store the runs before it left.
SpecDownload == Init /\ [][NextDownloads]_vars

\* ------------------------------------------------------------------ claims
Range(s) == {s[i] : i \in 1..Len(s)}

Last(s) == s[Len(s)]

IsPrefix(s, t) == Len(s) <= Len(t) /\ \A i \in 1..Len(s) : s[i] = t[i]

Providers == {<<"alt", k>> : k \in 1..NumSources}

\* The order the sources stand in.
SourceOrder ==
    <<<<"store", 0>>, <<"local", 0>>>> \o [k \in 1..NumSources |-> <<"alt", k>>]
        \o <<<<"synth", 0>>>>

Rank(e) == CHOOSE i \in 1..Len(SourceOrder) : SourceOrder[i] = e

Answered(r) == req[r].pc = "done"

\* The request missed the store and went to the remote sources.
Missed(r) == Answered(r) /\ ~req[r].hit /\ req[r].status # 400

NextAfter(a, c) ==
    /\ a \in req[c].pred
    /\ req[c].log # <<>>
    /\ cachePath(req[c]) = cachePath(req[a])
    /\ \A d \in Reqs : (d < c /\ d # a) => a \notin req[d].pred

\* C2: when the store misses and a remote source answers 200, the store is
\* written exactly once for that request, the bytes written are the response
\* body, and the next request for the same coordinate, with no clear or
\* clearZoom in between, is a store hit returning those bytes.
C2_WriteThroughThenHit ==
    \A a \in Reqs :
        (Missed(a) /\ req[a].status = 200 /\ req[a].oks # {})
        => /\ req[a].nwrites = 1
           /\ req[a].body = req[a].buf
           /\ \A c \in Reqs :
                NextAfter(a, c) => (req[c].hit /\ req[c].body = req[a].body)

C4_StrictPrefix == \A r \in Reqs : IsPrefix(req[r].log, SourceOrder)

\* C4, amended: the sources are attempted in strictly increasing order, none
\* more than once, and none before every earlier one has been attempted,
\* except that synthesis is attempted with later providers unattempted after
\* the write-through of a provider's 200 body has failed.
C4_OrderedAttempts ==
    \A r \in Reqs :
        LET L == req[r].log
        IN  \A i \in 1..Len(L) :
                /\ L[i] \in Range(SourceOrder)
                /\ i > 1 => Rank(L[i]) > Rank(L[i - 1])
                /\ \/ Rank(L[i]) = i
                   \/ /\ L[i] = <<"synth", 0>>
                      /\ i > 1
                      /\ Rank(L[i - 1]) = i - 1
                      /\ L[i - 1] \in Providers \cap req[r].oks
                      /\ req[r].wfail

C4_Witness ==
    \E r \in Reqs : req[r].log = SourceOrder /\ req[r].pc = "mkdir"

\* The first provider of the list that answered 200 to request r.
FirstOk(r) == CHOOSE k \in 1..NumSources :
    /\ <<"alt", k>> \in req[r].oks
    /\ \A j \in 1..(k - 1) : <<"alt", j>> \notin req[r].oks

C5_Iteration(r) ==
    (req[r].pc = "alt" /\ req'[r].log # req[r].log)
    => LET i == req[r].idx
       IN  /\ req'[r].log = Append(req[r].log, <<"alt", i>>)
           /\ IF <<"alt", i>> \in req'[r].oks
              THEN /\ req'[r].pc = "mkdir"
                   /\ req'[r].stage = "alt"
                   /\ req'[r].buf = AltBody(i)
                   /\ req'[r].idx = i
              ELSE IF i < NumSources
                   THEN req'[r].pc = "alt" /\ req'[r].idx = i + 1
                   ELSE req'[r].pc = "synth"

\* The write-through of a provider's body, when it succeeds.
C5_WriteThrough(r) ==
    (/\ req[r].pc = "write"
     /\ req[r].stage = "alt"
     /\ req'[r].nwrites = req[r].nwrites + 1)
    => /\ req'[r].pc = "done"
       /\ req'[r].status = 200
       /\ req'[r].body = AltBody(req[r].idx)
       /\ ~req[r].cleared
            => /\ cachePath(req[r]) \in DOMAIN fs'.files
               /\ fs'.files[cachePath(req[r])] = AltBody(req[r].idx)

\* While and after a provider's body is written through, that provider is the
\* only one that answered 200 and the last one contacted.
C5_Result(r) ==
    (req[r].stage = "alt" /\ req[r].pc \in {"mkdir", "open", "write", "done"})
    => /\ req[r].idx = FirstOk(r)
       /\ req[r].oks \cap Providers = {<<"alt", req[r].idx>>}
       /\ Last(req[r].log) = <<"alt", req[r].idx>>
       /\ req[r].buf = AltBody(req[r].idx)
       /\ (req[r].pc = "done" /\ req[r].status = 200)
            => req[r].body = AltBody(req[r].idx)

AllRemoteFailed(r) ==
    /\ req[r].oks = {}
    /\ {<<"local", 0>>} \cup Providers \subseteq Range(req[r].log)

\* What the generator is to deliver: the error tile when synthesis throws.
Placeholder(r) == IF req[r].synth = "threw" THEN ErrorTile ELSE SimpleTile

C6_WriteThrough(r) ==
    (/\ req[r].pc = "write"
     /\ req[r].stage = "synth"
     /\ req'[r].nwrites = req[r].nwrites + 1)
    => /\ req'[r].pc = "done"
       /\ req'[r].status = 200
       /\ req'[r].body = Placeholder(r)
       /\ ~req[r].cleared
            => /\ cachePath(req[r]) \in DOMAIN fs'.files
               /\ fs'.files[cachePath(req[r])] = Placeholder(r)

C6_Result(r) ==
    /\ (Missed(r) /\ req[r].oks = {})
         => /\ AllRemoteFailed(r)
            /\ req[r].log = SourceOrder
            /\ req[r].synth # "none"
            /\ ~req[r].wfail
                 => req[r].status = 200 /\ req[r].body = Placeholder(r)
    /\ (req[r].stage = "synth" /\ req[r].pc \in {"mkdir", "open", "write"})
         => req[r].buf = Placeholder(r)

OutOfRange(q) ==
    LET zn == parseInt(q.z)
        xn == parseInt(q.x)
        yn == parseInt(q.y)
    IN  \/ ~zn.nan /\ (zn.v < 0 \/ zn.v > 18)
        \/ ~xn.nan /\ xn.v < 0
        \/ ~yn.nan /\ yn.v < 0

\* C7: a tile request with zoom outside [0, 18] or with negative x or y is
\* answered 400 before any store lookup, remote fetch or store write, and
\* leaves the store unchanged.
C7_RejectOutOfRange ==
    [][\A r \in Reqs :
        (req[r].pc = "idle" /\ req'[r].pc # "idle" /\ OutOfRange(req'[r]))
        => /\ req'[r].pc = "done"
           /\ req'[r].status = 400
           /\ req'[r].log = <<>>
           /\ req'[r].nwrites = 0
           /\ fs' = fs]_vars

C7_Witness ==
    \E r \in Reqs :
        /\ Answered(r) /\ req[r].status = 400
        /\ req[r].x = <<"-", "1">>
        /\ req[r].log = <<>>

\* C8: after clearCache returned success with no tile request in flight since
\* it began, the statistics report no tile and a lookup of any coordinate
\* misses; clearing an empty or non-existent store is no failure.
C8_ClearEmptiesStore ==
    /\ clearResult # "failure"
    /\ (clearPc = "done" /\ clearResult = "success" /\ clearQuiet)
         => /\ getCacheStats(fs).totalTiles = 0
            /\ getCacheStats(fs).totalSize = 0
            /\ DOMAIN fs.files = {}

C8_Witness ==
    /\ clearPc = "done" /\ clearResult = "success" /\ clearQuiet
    /\ \E r \in Reqs :
        Answered(r) /\ req[r].status = 200 /\ req[r].nwrites = 1

\* The call of clearZoomLevel(z) that this step makes and that succeeds.
ClearsZoom(z) ==
    nzoom' = nzoom + 1 /\ zoomArg' = z /\ zoomResult' = "success"

C10_SequentialSpacing ==
    \A i, j \in Calls :
        (calls[j].pc = "issued" /\ i \in calls[j].seen)
        => calls[j].issuedAt - calls[i].issuedAt >= MIN_REQUEST_INTERVAL

C10_Witness ==
    \E i, j \in Calls :
        /\ calls[j].pc = "issued" /\ i \in calls[j].seen
        /\ calls[j].issuedAt - calls[i].issuedAt = MIN_REQUEST_INTERVAL
        /\ calls[j].fireAt > calls[i].issuedAt + TickMs

\* C11: any two outbound requests of the rate limiter are issued at least
\* MIN_REQUEST_INTERVAL apart, whatever the interleaving of the calls that
\* are pending together and of their timers.
C11_AnyTwoSpaced ==
    \A i, j \in Calls :
        (i # j /\ calls[i].pc = "issued" /\ calls[j].pc = "issued"
            /\ calls[j].issuedAt >= calls[i].issuedAt)
        => calls[j].issuedAt - calls[i].issuedAt >= MIN_REQUEST_INTERVAL

\* C17: a store read that runs beside a write-through for the same coordinate
\* misses or returns the complete bytes being written: no tile request is
\* answered from the store with a partial (truncated or empty) tile.
C17_NoPartialRead ==
    \A r \in Reqs :
        (Answered(r) /\ req[r].hit) => req[r].body \in Images

\* The four kinds of error a response is rejected with.
ErrorKind(status) == IF status \in {429, 403, 404} THEN status ELSE 0

\* How the fetch of call c is to be settled by the response it gets here.
C18_Response(c) ==
    (calls[c].osm = "none" /\ calls'[c].status # 0)
    => LET status == calls'[c].status
           h == calls'[c].hdr
           value == calls'[c].value
       IN  /\ status = 200 => calls'[c].osm = "caching"
           /\ status # 200 => (calls'[c].osm = "rejected" /\ fs' = fs)
           /\ (status = 429 /\ h = <<>>)
                => value = <<"Rate limited. Retry after ", "60", " seconds">>
           /\ (status = 429 /\ h # <<>> /\ h # <<"">>)
                => value = <<"Rate limited. Retry after ", h[1], " seconds">>
           /\ status = 403 => value = <<"Access blocked by OSM tile server">>
           /\ status = 404 => value = <<"Tile not found">>
           /\ status \notin {200, 429, 403, 404}
                => value = <<"HTTP ">> \o toString(status)

\* C18: the fetcher classifies the response by status: 200 yields the body
\* bytes, 429 a rate-limited error carrying Retry-After (60 when the header is
\* absent), 403 a blocked error, 404 a not-found error, any other status an
\* error carrying the code; the four errors differ from one another and none
\* of them writes to the store.
C18_Classified ==
    [][/\ \A c \in Calls :
            /\ C18_Response(c)
            /\ (calls[c].osm = "caching" /\ calls'[c] # calls[c])
                 => (calls'[c].osm = "resolved" /\ calls'[c].value = OsmBody)
            /\ calls[c].osm = "rejected" => calls'[c] = calls[c]
       /\ fs' # fs => \E c \in Calls :
            calls[c].osm = "caching" /\ calls[c].status = 200
       /\ \A c, d \in Calls :
            (/\ calls'[c].osm = "rejected" /\ calls'[c].status # 0
             /\ calls'[d].osm = "rejected" /\ calls'[d].status # 0
             /\ ErrorKind(calls'[c].status) # ErrorKind(calls'[d].status))
            => calls'[c].value # calls'[d].value]_vars

C18_Witness ==
    \E c, d \in Calls :
        /\ calls[c].osm = "rejected" /\ calls[c].status = 429
        /\ calls[c].hdr = <<>>
        /\ calls[c].value = <<"Rate limited. Retry after ", "60", " seconds">>
        /\ calls[d].osm = "resolved" /\ calls[d].value = OsmBody
        /\ cachePath(OsmTile) \in DOMAIN fs.files

\* The tiles of the inclusive rectangle between the two corner tiles at zoom z.
Rectangle(b, z) ==
    LET c1 == deg2tile(b.north, b.west, z)
        c2 == deg2tile(b.south, b.east, z)
    IN  {[x |-> x, y |-> y, z |-> z] :
            x \in (IF c1.x < c2.x THEN c1.x..c2.x ELSE c2.x..c1.x),
            y \in (IF c1.y < c2.y THEN c1.y..c2.y ELSE c2.y..c1.y)}

\* Zoom first, then x, then y.
TileBefore(s, t) ==
    \/ s.z < t.z
    \/ s.z = t.z /\ s.x < t.x
    \/ s.z = t.z /\ s.x = t.x /\ s.y < t.y

\* C19: for all bounds and all minZoom <= maxZoom, getTilesInBounds returns
\* every tile of the inclusive rectangle between the two corner tiles at each
\* zoom exactly once, by zoom, then x, then y ascending; swapping north with
\* south or east with west yields the same sequence.
C19_TilesInBounds ==
    (tilesCall.called /\ tilesCall.minZoom <= tilesCall.maxZoom)
    => LET b == tilesCall.bounds
           lo == tilesCall.minZoom
           hi == tilesCall.maxZoom
           T == tilesCall.tiles
       IN  /\ Range(T) = UNION {Rectangle(b, z) : z \in lo..hi}
           /\ Len(T) = Cardinality(Range(T))
           /\ \A i \in 1..(Len(T) - 1) : TileBefore(T[i], T[i + 1])
           /\ getTilesInBounds([b EXCEPT !.north = b.south, !.south = b.north],
                               lo, hi) = T
           /\ getTilesInBounds([b EXCEPT !.east = b.west, !.west = b.east],
                               lo, hi) = T

C19_Witness ==
    /\ tilesCall.called
    /\ tilesCall.bounds = [north |-> -60, south |-> 60, east |-> -90, west |-> 90]
    /\ tilesCall.minZoom = 1 /\ tilesCall.maxZoom = 2
    /\ Len(tilesCall.tiles) = 10
    /\ tilesCall.tiles[1] = [x |-> 0, y |-> 0, z |-> 1]
    /\ tilesCall.tiles[10] = [x |-> 3, y |-> 2, z |-> 2]

\* A body whose bounds is a GeoBounds: four numbers with north > south.
IsGeoBounds(body) ==
    /\ body.hasBounds
    /\ body.north.def /\ body.south.def /\ body.east.def /\ body.west.def
    /\ body.north.v > body.south.v

\* The step that answers the POST.
Answers == pl.post = "none" /\ pl'.post # "none"

\* C12: POST /cache/preload with valid bounds sends its acknowledgement
\* without waiting for a tile request of the preload to be issued or
\* completed, and the acknowledgement is the same whatever becomes of the
\* preload.
C12_AckAtOnce ==
    [][/\ (Answers /\ IsGeoBounds(pl'.body))
            => /\ pl'.post = "ack"
               /\ \A r \in Reqs : req'[r].pc = "idle"
               /\ pl'.loaded = 0 /\ pl'.failed = 0
       /\ pl.post # "none" => pl'.post = pl.post]_vars

\* The same for the bodies the handler accepts (no bound missing or zero).
C12_AcceptedAckAtOnce ==
    [][/\ (Answers /\ ~InvalidBounds(pl'.body))
            => /\ pl'.post = "ack"
               /\ \A r \in Reqs : req'[r].pc = "idle"
               /\ pl'.loaded = 0 /\ pl'.failed = 0
       /\ pl.post # "none" => pl'.post = pl.post]_vars

\* C13: once a public provider has answered 403 to a fetch made for a tile of
\* the preload, the preload issues no request for a later tile.
C13_AbortOnBlocked ==
    \A r \in Reqs :
        (req[r].pre > 0 /\ req[r].blocked) => pl.k <= req[r].pre

\* The fetch for the current tile settles as a failure other than Blocked.
FailsUnblocked ==
    /\ pl.pc = "fetch" /\ pl' # pl
    /\ \/ \A r \in Reqs : req[r].pre # pl.k
       \/ \E r \in Reqs :
            /\ req[r].pre = pl.k
            /\ req[r].status < 200 \/ req[r].status > 299
            /\ req[r].status # 403

\* C14: during a preload a tile whose request fails for a reason other than
\* Blocked is counted as failed and the preload goes on with the next tile;
\* absent a Blocked result every tile of the enumeration is requested.
C14_FailuresDoNotStop ==
    [][/\ FailsUnblocked
            => /\ pl'.failed = pl.failed + 1
               /\ pl'.loaded = pl.loaded
               /\ ~pl'.aborted
               /\ pl'.k = pl.k
               /\ pl'.pc = IF pl.k < Len(pl.tiles) THEN "delay" ELSE "done"
       /\ (pl.pc = "delay" /\ pl' # pl)
            => (pl'.pc = "fetch" /\ pl'.k = pl.k + 1)
       /\ (pl'.pc = "done" /\ ~pl'.aborted) => pl'.k = Len(pl'.tiles)
       /\ pl'.aborted => \E r \in Reqs :
            req'[r].pre = pl'.k /\ req'[r].status = 403]_vars

C14_Witness ==
    /\ pl.pc = "done" /\ ~pl.aborted
    /\ pl.k = 3 /\ Len(pl.tiles) = 3
    /\ pl.loaded = 1 /\ pl.failed = 2
    /\ \A r \in Reqs : req[r].pre # 1
    /\ \E r \in Reqs : req[r].pre = 2 /\ req[r].status = 500
    /\ \E r \in Reqs : req[r].pre = 3 /\ req[r].status = 200

\* The requests of the preload the tile endpoint has not answered yet.
Outstanding == {r \in Reqs : req[r].pre > 0 /\ InFlight(r)}

\* C15: a preload requests its tiles through the tile endpoint one at a time
\* in enumeration order: the request for tile k+1 is issued only after the
\* request for tile k has completed and the fixed delay has elapsed, and no
\* more than one request of the preload is ever outstanding.
C15_OneAtATime ==
    [][/\ \A r \in Reqs :
            (req[r].pc = "idle" /\ req'[r].pc # "idle")
            => /\ pl.pc = "fetch"
               /\ req'[r].pre = pl.k
               /\ cachePath(req'[r]) = tileUrl(pl.tiles[pl.k])
               /\ Outstanding = {}
               /\ \A q \in Reqs : req[q].pre < pl.k
       /\ pl'.k \in {pl.k, pl.k + 1}
       /\ (pl'.k = pl.k + 1 /\ pl.k >= 1)
            => /\ now >= pl.settledAt + PRELOAD_DELAY
               /\ pl.loaded + pl.failed = pl.k
               /\ \A r \in Reqs : req[r].pre = pl.k => req[r].pc = "done"
       /\ Cardinality(Outstanding') <= 1]_vars

C15_Witness ==
    /\ pl.pc = "fetch" /\ pl.k = 2
    /\ now = pl.settledAt + PRELOAD_DELAY
    /\ \E r \in Reqs : req[r].pre = 1 /\ req[r].pc = "done"
    /\ \E r \in Reqs : req[r].pre = 2 /\ InFlight(r)

\* C16: POST /cache/preload starts a preload and acknowledges it for every
\* body whose bounds is a GeoBounds, a bound of 0 included.
C16_GeoBoundsAccepted ==
    (pl.post # "none" /\ IsGeoBounds(pl.body))
    => (pl.post = "ack" /\ pl.pc # "idle")


\* C20: getCacheStats() always returns a statistics object and never an error
\* result, whatever filesystem error the walk meets on a subdirectory or on a
\* tile file, a concurrent clear included.
C20_NeverErrorResult == walk.result # "error"

\* The part of C20 on a missing store root: a walk that found no root returns
\* all-zero statistics.
C20_MissingRootAllZero ==
    (walk.pc = "done" /\ walk.rootMissing)
        => /\ walk.result = "stats"
           /\ walk.totalTiles = 0
           /\ walk.totalSize = 0
           /\ walk.zoomLevels = NoLevels

\* The step in which a write-through of request r fails: its mkdir, its open
\* or its write does not lead to the next step.
WriteFails(r) ==
    /\ req[r].pc \in {"mkdir", "open", "write"}
    /\ req'[r].pc # req[r].pc
    /\ req'[r].nwrites = req[r].nwrites
    /\ ~(req[r].pc = "mkdir" /\ req'[r].pc = "open")
    /\ ~(req[r].pc = "open" /\ req'[r].pc = "write")

\* C21: a failed write to the store is surfaced as 500 only once synthesis
\* has been attempted: a write failure of the synthesis step ends the request
\* with 500 and no image body, a write failure of an earlier step sends the
\* request on to the next source, and nothing else ends a request with 500.
C21_WriteFailureIs500 ==
    [][\A r \in Reqs :
        /\ (WriteFails(r) /\ req[r].stage = "synth")
             => /\ req'[r].pc = "done"
                /\ req'[r].status = 500
                /\ req'[r].body = <<>>
        /\ (WriteFails(r) /\ req[r].stage # "synth")
             => /\ req'[r].pc \in {"alt", "synth"}
                /\ req'[r].status = 0
        /\ (req'[r].status = 500 /\ req[r].status # 500)
             => /\ WriteFails(r)
                /\ req[r].stage = "synth"
                /\ Last(req[r].log) = <<"synth", 0>>]_vars

C21_Witness ==
    \E r \in Reqs :
        /\ Answered(r) /\ req[r].status = 500
        /\ req[r].body = <<>>
        /\ req[r].wfail
        /\ req[r].log = SourceOrder

\* A decimal numeral: digits only, at least one.
IsNumeral(s) == s # <<>> /\ \A i \in 1..Len(s) : IsDigit(s[i])

\* The store entry z/x/y.png belongs to a valid TileCoordinate.
ValidEntry(p) ==
    /\ IsNumeral(p[1]) /\ IsNumeral(p[2]) /\ IsNumeral(p[3])
    /\ parseInt(p[1]).v <= MaxZoom
    /\ parseInt(p[2]).v < 2 ^ parseInt(p[1]).v
    /\ parseInt(p[3]).v < 2 ^ parseInt(p[1]).v

\* C22: every entry of the store belongs to a valid TileCoordinate, whatever
\* the path parameters of the tile requests.
C22_EntriesInRange == \A p \in DOMAIN fs.files : ValidEntry(p)

\* The coordinate an entry with numeric names stands for.
Coord(p) == <<parseInt(p[1]).v, parseInt(p[2]).v, parseInt(p[3]).v>>

\* C23: the store holds at most one entry per coordinate: requests that
\* denote the same (zoom, x, y) read and write the same entry.
C23_OneEntryPerCoordinate ==
    \A p, q \in DOMAIN fs.files :
        (/\ \A i \in 1..3 : IsNumeral(p[i]) /\ IsNumeral(q[i])
         /\ Coord(p) = Coord(q))
        => p = q

\* The step in which request r calls https.get for a public provider.
CallsProvider(r) ==
    /\ req'[r].pc = "alt"
    /\ req[r].pc # "alt" \/ req'[r].idx # req[r].idx

\* C24: any two outbound requests to public providers are issued at least
\* MIN_REQUEST_INTERVAL apart, however many tile requests are pending.
C24_ProviderFetchesSpaced ==
    [][\A r \in Reqs :
        CallsProvider(r)
        => \A q \in Reqs :
                req[q].sentAt >= 0
                => now - req[q].sentAt >= MIN_REQUEST_INTERVAL]_vars

\* Requests a and b both missed the store for one coordinate.
BothMissed(a, b) ==
    /\ a # b
    /\ Missed(a) /\ Missed(b)
    /\ cachePath(req[a]) = cachePath(req[b])

\* C25: two concurrent requests that miss the store for one coordinate both
\* end with 200, write the same bytes and leave one entry whose bytes are the
\* body each of them returned; an entry, once written, keeps its bytes as
\* long as no clear removes it.
C25_HerdIsIdempotent ==
    [][/\ \A a, b \in Reqs :
            BothMissed(a, b)'
            => /\ req'[a].status = 200 /\ req'[b].status = 200
               /\ req'[a].buf = req'[b].buf
               /\ req'[a].body = req'[b].body
               /\ (\A c \in Reqs : ~InFlight(c)')
                    => fs'.files[cachePath(req'[a])] = req'[a].body
       /\ \A p \in DOMAIN fs.files :
            fs.files[p] # <<>>
            => (p \in DOMAIN fs'.files /\ fs'.files[p] = fs.files[p])]_vars

\* C26: under fair scheduling every tile request that has arrived eventually
\* sends its response, and a response once sent is never followed by another.
C26_EveryRequestAnswered ==
    /\ \A r \in ConcReqs : (req[r].pc # "idle") ~> (req[r].pc = "done")
    /\ [][\A r \in ConcReqs :
            req[r].pc = "done"
            => /\ req'[r].pc = "done"
               /\ req'[r].status = req[r].status
               /\ req'[r].body = req[r].body]_vars

\* The same, but for the requests that wait for the end of a response body
\* that never ends.
C26_AnsweredUnlessBodyBreaks ==
    /\ \A r \in ConcReqs :
            (req[r].pc # "idle") ~> (req[r].pc \in {"done", "hung"})
    /\ [][\A r \in ConcReqs :
            req[r].pc = "done"
            => /\ req'[r].pc = "done"
               /\ req'[r].status = req[r].status
               /\ req'[r].body = req[r].body]_vars

\* C27: the statistics getCacheStats() returns have an entry only for
\* directories whose name is a zoom number; a directory with any other name
\* is skipped and its tiles are not counted.
C27_OnlyZoomNumbersCounted ==
    (walk.pc = "done" /\ walk.result = "stats")
    => \A n \in DOMAIN walk.zoomLevels : IsNumeral(n)

\* C28: a tile request in range that runs beside clearCache() or
\* clearZoomLevel() and meets no I/O error still ends with 200: that a clear
\* removes the tile's directory between the mkdir and the write of the
\* request never makes it end with 500.
C28_ClearNeverCauses500 ==
    \A r \in Reqs :
        (Answered(r) /\ req[r].status # 400 /\ ioerrs = 0)
        => req[r].status = 200

\* The tile requests of the preload whose fetch has settled: all before the
\* current tile, and the current one unless its fetch is awaited.
Completed == IF pl.pc = "fetch" THEN pl.k - 1 ELSE pl.k

\* The tiles among them whose request the endpoint answered with an OK status.
AnsweredOk ==
    {j \in 1..Completed :
        \E r \in Reqs :
            /\ req[r].pre = j /\ req[r].pc = "done"
            /\ req[r].status >= 200 /\ req[r].status <= 299}

\* C29: loaded + failed is the number of tile requests of the preload that
\* have completed and never exceeds the number of enumerated tiles, which it
\* equals when the preload ends without a Blocked abort; loaded counts exactly
\* the tiles whose request returned an OK response.
C29_CountersAddUp ==
    /\ pl.loaded + pl.failed = Completed
    /\ pl.loaded + pl.failed <= Len(pl.tiles)
    /\ (pl.pc = "done" /\ ~pl.aborted) => pl.loaded + pl.failed = Len(pl.tiles)
    /\ pl.loaded = Cardinality(AnsweredOk)

C29_Witness ==
    /\ pl.pc = "done" /\ ~pl.aborted
    /\ Len(pl.tiles) = 3
    /\ pl.loaded = 2 /\ pl.failed = 1
    /\ \E r \in Reqs : req[r].pre = 1 /\ req[r].status = 500
    /\ AnsweredOk = {2, 3}

\* The step in which the script calls https.get for a tile.
SendsRequest == dl'.sent # dl.sent \/ (dl'.pc = "get" /\ dl.pc # "get")

\* The step in which a download fails for another reason than Blocked.
FailsOtherwise == dl'.failed = dl.failed + 1 /\ dl'.blockedAt = 0

\* C30: downloadRegion stops at the first tile whose download is rejected as
\* access-blocked and attempts no later tile, goes on with the next tile
\* after any other failure, issues no network request for a tile that is in
\* the cache directory, and on return downloaded + cached + failed is the
\* number of tiles attempted.
C30_DownloadRegion ==
    [][dl'.runs = dl.runs =>
        /\ (dl.pc = "get" /\ dl'.blockedAt # 0)
             => /\ dl'.pc = "done"
                /\ dl'.blockedAt = dl.i
                /\ dl'.attempted = dl.i
                /\ dl'.failed = dl.failed + 1
        /\ dl.blockedAt # 0 => dl' = dl
        /\ FailsOtherwise
             => /\ dl'.attempted = IF dl.i < Len(dl.tiles) THEN dl.i + 1 ELSE dl.i
                /\ dl'.pc = IF dl.i < Len(dl.tiles) THEN "access" ELSE "done"
        /\ SendsRequest
             => /\ CurrentPath \notin DOMAIN fs.files
                /\ dl'.sent = dl.sent \cup {dl.i}
                /\ dl.i \notin dl.sent
        /\ dl'.pc = "done"
             => dl'.downloaded + dl'.cached + dl'.failed = dl'.attempted
        /\ dl'.attempted <= Len(dl'.tiles)]_vars

\* A run that went on after a rate-limited tile and stopped at a blocked one.
C30_Witness ==
    /\ dl.pc = "done"
    /\ Len(dl.tiles) = 3
    /\ dl.cached = 0 /\ dl.downloaded = 0 /\ dl.failed = 2
    /\ dl.blockedAt = 2 /\ dl.attempted = 2
    /\ dl.sent = {1, 2}

====
